---- MODULE Spec2Model ----
(***************************************************************************)
(* typedjson decoding engine (src/typedjson/decoding.py).                  *)
(*                                                                         *)
(* decode(type_, json, path) is a pure recursive function.  The outermost  *)
(* call is unrolled into a state machine, one step per iteration of the    *)
(* dispatcher's loop over its decoders; the nested calls the decoders make  *)
(* are evaluated by the recursive operator decode, which iterates the same  *)
(* loop body (decode_iter).                                                 *)
(*                                                                         *)
(* An outcome is one of                                                     *)
(*   [tag |-> "ok",  val    |-> v]     a decoded value is returned          *)
(*   [tag |-> "err", reason |-> r]     a DecodingError is returned          *)
(*   [tag |-> "exc", exc    |-> name]  a Python exception propagates        *)
(***************************************************************************)
EXTENDS Integers, Sequences, FiniteSets

VARIABLES
    type_,          \* the descriptor of the outermost call
    json,           \* its input value
    path,           \* its path
    d,              \* index in decoders of the decoder the loop is at
    result,         \* what the decoder consulted last returned
    result_final,   \* decode's result_final
    consulted,      \* the decoders consulted so far, in order
    pc,             \* "loop", "break", "done" (returned), "raised"
    round,          \* 1: the call as given; 2: the re-decode of its output
    first           \* round 2: the outcome of round 1

vars == <<type_, json, path, d, result, result_final, consulted, pc, round, first>>

(***************************************************************************)
(* Bounds of the input universe.                                           *)
(***************************************************************************)
MaxLen == 3
MaxKeys == 2

(***************************************************************************)
(* Python values.  An int or a float is n * 10^e (Python ints are          *)
(* unbounded: the exponent keeps a magnitude no machine word holds).       *)
(* A dict is its entries in insertion order.                               *)
(***************************************************************************)
None == [k |-> "NoneType"]
Bool(b) == [k |-> "bool", b |-> b]
IntV(n, e) == [k |-> "int", n |-> n, e |-> e]
FloatV(n, e) == [k |-> "float", n |-> n, e |-> e]
Str(s) == [k |-> "str", s |-> s]
DateV(n) == [k |-> "date", ord |-> n]
ListV(items) == [k |-> "list", items |-> items]
TupleV(items) == [k |-> "tuple", items |-> items]
DictV(entries) == [k |-> "dict", entries |-> entries]
ObjV(cls, attrs) == [k |-> "object", cls |-> cls, attrs |-> attrs]
EnumV(cls, raw) == [k |-> "enum", cls |-> cls, raw |-> raw]

\* Optional[...] results of the reflection provider
NonePy == [some |-> FALSE]
Some(x) == [some |-> TRUE, v |-> x]

(***************************************************************************)
(* The error model.                                                        *)
(***************************************************************************)
TypeMismatch(p) == [cls |-> "TypeMismatch", path |-> p]
UnsupportedDecoding(p) == [cls |-> "UnsupportedDecoding", path |-> p]
InitializationError(p, underlying) ==
    [cls |-> "InitializationError", path |-> p, underlying |-> underlying]
DecodingError(reason) == [tag |-> "err", reason |-> reason]
Ok(v) == [tag |-> "ok", val |-> v]
Raised(exc) == [tag |-> "exc", exc |-> exc]

\* isinstance(x, DecodingError)
is_DecodingError(x) == x.tag = "err"

(***************************************************************************)
(* Type descriptors.                                                       *)
(***************************************************************************)
Class(name) == [kind |-> "class", name |-> name]
float == Class("float")
str == Class("str")
int == Class("int")
bool == Class("bool")
NoneType == Class("NoneType")
date == Class("date")
datetime == Class("datetime")
Any == [kind |-> "Any"]
Ellipsis == [kind |-> "Ellipsis"]
TypeVar(name) == [kind |-> "TypeVar", name |-> name]
Generic(origin, args) == [kind |-> origin, args |-> args]
\* a scalar rehydrated from a wire supertype: members are the raw values
\* that are the representation of one of its enumerants
Wire(name, supertype, members) ==
    [kind |-> "wire", name |-> name, supertype |-> supertype, members |-> members]
\* a record shape: hints and defaults are sequences of <<field, x>>
Record(name, hints, defaults) ==
    [kind |-> "record", name |-> name, hints |-> hints, defaults |-> defaults]

\* typedjson.annotation
origin_of(t) == IF t.kind \in {"Union", "tuple", "list", "dict"} THEN t.kind ELSE "None"
args_of(t) == t.args
hints_of(t) == IF t.kind = "record" THEN Some(t.hints) ELSE NonePy
supertype_of(t) == IF t.kind = "wire" THEN Some(t.supertype) ELSE NonePy

(***************************************************************************)
(* Python built-ins the decoders call.                                     *)
(***************************************************************************)
\* type(json).__name__
type_of(v) == IF v.k \in {"object", "enum"} THEN v.cls ELSE v.k

\* isinstance(v, <the built-in class named t>)
RECURSIVE isinstance(_, _)
isinstance(v, t) ==
    \/ v.k = t
    \/ t = "int" /\ v.k = "bool"
    \/ v.k = "enum" /\ isinstance(v.raw, t)

\* isinstance(json, Iterable)
is_Iterable(v) == v.k \in {"list", "tuple", "dict", "str"}

\* the characters of a str
CharTable ==
    [s \in {"ab", "name", "age"} |->
        CASE s = "ab" -> <<"a", "b">>
          [] s = "name" -> <<"n", "a", "m", "e">>
          [] s = "age" -> <<"a", "g", "e">>]
chars(s) == IF Len(s) = 0 THEN <<>> ELSE IF Len(s) = 1 THEN <<s>> ELSE CharTable[s]

\* list(iter(v)) for an iterable v: a dict iterates its keys, a str its characters
iter(v) ==
    CASE v.k \in {"list", "tuple"} -> v.items
      [] v.k = "dict" -> [i \in 1..Len(v.entries) |-> v.entries[i][1]]
      [] v.k = "str" -> [i \in 1..Len(chars(v.s)) |-> Str(chars(v.s)[i])]

\* str(index) of a non-negative int
Digits == <<"0", "1", "2", "3", "4", "5", "6", "7", "8", "9">>
RECURSIVE str_of(_)
str_of(index) ==
    IF index < 10 THEN Digits[index + 1]
    ELSE str_of(index \div 10) \o Digits[(index % 10) + 1]

\* str(key) of a mapping key (a str is its own text)
str_key(key) == key.s

\* p in json, json.get(p) for a dict
dict_has(v, p) == \E i \in 1..Len(v.entries) : v.entries[i][1] = p
dict_get(v, p) ==
    IF dict_has(v, p)
    THEN v.entries[CHOOSE i \in 1..Len(v.entries) : v.entries[i][1] = p][2]
    ELSE None

\* dict_decoded[key] = value: a key already present keeps its place
dict_set(entries, key, value) ==
    IF \E i \in 1..Len(entries) : entries[i][1] = key
    THEN [i \in 1..Len(entries) |->
            IF entries[i][1] = key THEN <<key, value>> ELSE entries[i]]
    ELSE Append(entries, <<key, value>>)

\* float(json) of an int or a float: an int beyond the largest double
\* (1.797...e308) raises OverflowError
float_of(v) ==
    IF v.k = "float" THEN Ok(v)
    ELSE IF v.n # 0 /\ (v.e > 308 \/ (v.e = 308 /\ (v.n >= 2 \/ v.n <= -2)))
    THEN Raised("OverflowError")
    ELSE Ok(FloatV(v.n, v.e))

\* type_(json) of a scalar with a wire supertype: the enumerant of that raw
\* value, ValueError when there is none
construct(t, v) ==
    LET raw == IF v.k = "enum" THEN v.raw ELSE v
    IN  IF raw \in t.members THEN Ok(EnumV(t.name, raw)) ELSE Raised("ValueError")

\* type_(**parameters) of a record: TypeError when a field with no default
\* is not passed
field_names(pairs) == {pairs[i][1] : i \in 1..Len(pairs)}
field_value(pairs, name) == pairs[CHOOSE i \in 1..Len(pairs) : pairs[i][1] = name][2]
new_record(t, parameters) ==
    LET missing == field_names(t.hints) \ (field_names(parameters) \cup field_names(t.defaults))
    IN  IF missing # {}
        THEN [tag |-> "TypeError", e |-> [exc |-> "TypeError", missing |-> missing]]
        ELSE Ok(ObjV(t.name,
                [i \in 1..Len(t.hints) |->
                    LET f == t.hints[i][1]
                    IN  <<f, IF f \in field_names(parameters)
                             THEN field_value(parameters, f)
                             ELSE field_value(t.defaults, f)>>]))

RECURSIVE decode(_, _, _)

(***************************************************************************)
(* decode_as_primitive                                                     *)
(***************************************************************************)
primitives == {str, int, bool, NoneType, date, datetime}

\* mutant: a float target accepts an int only
decode_as_primitive_int_only(t, j, p) ==
    IF t = float
    THEN IF type_of(j) = "int" THEN float_of(j) ELSE DecodingError(TypeMismatch(p))
    ELSE IF t \in primitives
    THEN IF type_of(j) = t.name THEN Ok(j) ELSE DecodingError(TypeMismatch(p))
    ELSE IF supertype_of(t) # NonePy
    THEN IF isinstance(j, supertype_of(t).v)
         THEN construct(t, j)
         ELSE DecodingError(TypeMismatch(p))
    ELSE DecodingError(UnsupportedDecoding(p))

decode_as_primitive(t, j, p) ==
    LET supertype == supertype_of(t)
    IN  IF t = float
        THEN IF type_of(j) \in {"float", "int"}
             THEN float_of(j)
             ELSE DecodingError(TypeMismatch(p))
        ELSE IF t \in primitives
        THEN IF type_of(j) = t.name THEN Ok(j) ELSE DecodingError(TypeMismatch(p))
        ELSE IF supertype # NonePy
        THEN IF isinstance(j, supertype.v)
             THEN construct(t, j)
             ELSE DecodingError(TypeMismatch(p))
        ELSE DecodingError(UnsupportedDecoding(p))

(***************************************************************************)
(* decode_as_dict                                                          *)
(***************************************************************************)
RECURSIVE dict_items_loop(_, _, _, _, _, _)
\* ... if isinstance(decoded_key, DecodingError): return decoded_key;
\*     dict_decoded[decoded_key] = decoded_value
dict_item_key(decoded_key, decoded_value, KeyElement, ValueElement, entries, p, i, dict_decoded) ==
    IF decoded_key.tag # "ok" THEN decoded_key
    ELSE dict_items_loop(KeyElement, ValueElement, entries, p, i + 1,
            dict_set(dict_decoded, decoded_key.val, decoded_value.val))

\* ... if isinstance(decoded_value, DecodingError): return decoded_value;
\*     decoded_key = decode(KeyElement, key, path + (str(key),))
dict_item_value(decoded_value, KeyElement, ValueElement, entries, p, i, dict_decoded) ==
    IF decoded_value.tag # "ok" THEN decoded_value
    ELSE dict_item_key(
            decode(KeyElement, entries[i][1], p \o <<str_key(entries[i][1])>>),
            decoded_value, KeyElement, ValueElement, entries, p, i, dict_decoded)

\* mutant: an entry's key is decoded before its value
dict_item_value_last(decoded_key, decoded_value, KeyElement, ValueElement, entries, p, i, dict_decoded) ==
    IF decoded_value.tag # "ok" THEN decoded_value
    ELSE dict_items_loop(KeyElement, ValueElement, entries, p, i + 1,
            dict_set(dict_decoded, decoded_key.val, decoded_value.val))
dict_item_after_key(decoded_key, KeyElement, ValueElement, entries, p, i, dict_decoded) ==
    IF decoded_key.tag # "ok" THEN decoded_key
    ELSE dict_item_value_last(decoded_key,
            decode(ValueElement, entries[i][2], p \o <<str_key(entries[i][1])>>),
            KeyElement, ValueElement, entries, p, i, dict_decoded)
dict_items_loop_key_first(KeyElement, ValueElement, entries, p, i, dict_decoded) ==
    IF i > Len(entries) THEN Ok(DictV(dict_decoded))
    ELSE dict_item_after_key(
            decode(KeyElement, entries[i][1], p \o <<str_key(entries[i][1])>>),
            KeyElement, ValueElement, entries, p, i, dict_decoded)

\* for key, element in json.items():
\*     decoded_value = decode(ValueElement, element, path + (str(key),)) ...
dict_items_loop(KeyElement, ValueElement, entries, p, i, dict_decoded) ==
    IF i > Len(entries) THEN Ok(DictV(dict_decoded))
    ELSE dict_item_value(
            decode(ValueElement, entries[i][2], p \o <<str_key(entries[i][1])>>),
            KeyElement, ValueElement, entries, p, i, dict_decoded)

decode_as_dict(t, j, p) ==
    IF j.k = "dict" /\ origin_of(t) = "dict"
    THEN dict_items_loop(args_of(t)[1], args_of(t)[2], j.entries, p, 1, <<>>)
    ELSE DecodingError(UnsupportedDecoding(p))

(***************************************************************************)
(* decode_as_any                                                           *)
(***************************************************************************)
decode_as_any(t, j, p) ==
    IF t = Any THEN Ok(j) ELSE DecodingError(UnsupportedDecoding(p))

(***************************************************************************)
(* decode_as_class                                                         *)
(***************************************************************************)
\* _decode((key, type_))
class_decode(annotation, j, p) ==
    decode(annotation[2], dict_get(j, Str(annotation[1])), p \o <<annotation[1]>>)

\* mutant: every annotation is kept, a field absent from json is decoded
\* from json.get(key) = None
class_present_all(annotations, j) == annotations

\* the annotations kept by the comprehension's filter "if p in json"
RECURSIVE class_present(_, _)
class_present(annotations, j) ==
    IF annotations = <<>> THEN <<>>
    ELSE IF dict_has(j, Str(Head(annotations)[1]))
    THEN <<Head(annotations)>> \o class_present(Tail(annotations), j)
    ELSE class_present(Tail(annotations), j)

\* parameters = {p: _decode((p, a)) for p, a in annotations.items() if p in json}:
\* every kept field is decoded, in order, unless a decode raises
RECURSIVE class_parameters(_, _, _, _)
class_parameters(kept, j, p, parameters) ==
    IF kept = <<>> \/ (parameters # <<>> /\ parameters[Len(parameters)][2].tag = "exc")
    THEN parameters
    ELSE class_parameters(Tail(kept), j, p,
            Append(parameters, <<Head(kept)[1], class_decode(Head(kept), j, p)>>))

\* try: return type_(**parameters)
\* except TypeError as e: return DecodingError(InitializationError(path, e))
class_init(made, p) ==
    IF made.tag = "TypeError" THEN DecodingError(InitializationError(p, made.e)) ELSE made

\* for parameter in parameters.values(): if isinstance(parameter, DecodingError): ...
class_finish(parameters, t, p) ==
    LET n == Len(parameters)
        failed == {i \in 1..n : parameters[i][2].tag = "err"}
    IN  IF n > 0 /\ parameters[n][2].tag = "exc" THEN parameters[n][2]
        ELSE IF failed # {}
        THEN parameters[CHOOSE i \in failed : \A k \in failed : i <= k][2]
        ELSE class_init(new_record(t, [i \in 1..n |-> <<parameters[i][1], parameters[i][2].val>>]), p)

decode_as_class(t, j, p) ==
    IF j.k = "dict" /\ hints_of(t) # NonePy
    THEN class_finish(class_parameters(class_present(hints_of(t).v, j), j, p, <<>>), t, p)
    ELSE DecodingError(UnsupportedDecoding(p))

(***************************************************************************)
(* decode_as_union                                                         *)
(***************************************************************************)
RECURSIVE union_args_loop(_, _, _, _)
\* mutant: the first definitive error ends the loop
union_arg_fail_fast(decoded, args, j, p, i) ==
    IF decoded.tag = "exc" THEN decoded
    ELSE IF ~is_DecodingError(decoded) THEN decoded
    ELSE IF decoded.reason.cls # "UnsupportedDecoding" THEN decoded
    ELSE IF i = Len(args) THEN decoded
    ELSE union_args_loop(args, j, p, i + 1)

\* if not isinstance(decoded, DecodingError): break ... return decoded
union_arg(decoded, args, j, p, i) ==
    IF decoded.tag = "exc" THEN decoded
    ELSE IF ~is_DecodingError(decoded) THEN decoded
    ELSE IF i = Len(args) THEN decoded
    ELSE union_args_loop(args, j, p, i + 1)

\* for type_ in args: decoded = decode(type_, json, path) ...
union_args_loop(args, j, p, i) == union_arg(decode(args[i], j, p), args, j, p, i)

decode_as_union(t, j, p) ==
    IF origin_of(t) = "Union"
    THEN IF \E i \in 1..Len(args_of(t)) : args_of(t)[i].kind = "TypeVar"
         THEN DecodingError(UnsupportedDecoding(p))
         ELSE union_args_loop(args_of(t), j, p, 1)
    ELSE DecodingError(UnsupportedDecoding(p))

(***************************************************************************)
(* decode_as_tuple                                                         *)
(***************************************************************************)
\* mutant: the marker alone is not counted, the repeated descriptor is
_required_length_off_by_one(args) ==
    IF args[Len(args)] = Ellipsis THEN Len(args) - 1 ELSE Len(args)

_required_length(args) ==
    IF args[Len(args)] = Ellipsis THEN Len(args) - 2 ELSE Len(args)

\* what the generator _iter_args(args) yields at its index-th next()
\* (index from 0): [st |-> "yield", t |-> type], [st |-> "stop"], or
\* [st |-> "raise"] (the bare raise when the marker comes first)
_iter_args(args, index) ==
    LET marks == {i \in 1..Len(args) : args[i] = Ellipsis}
        m == IF marks = {} THEN 0 ELSE CHOOSE i \in marks : \A k \in marks : i <= k
    IN  IF m # 0 /\ index + 1 >= m
        THEN IF m = 1 THEN [st |-> "raise"] ELSE [st |-> "yield", t |-> args[m - 1]]
        ELSE IF index + 1 > Len(args) THEN [st |-> "stop"]
        ELSE [st |-> "yield", t |-> args[index + 1]]

RECURSIVE tuple_zip_loop(_, _, _, _, _)
\* if isinstance(decoded, DecodingError): return decoded
\* list_decoded.append(decoded)
tuple_element(decoded, args, elements, p, index, list_decoded) ==
    IF decoded.tag # "ok" THEN decoded
    ELSE tuple_zip_loop(args, elements, p, index + 1, Append(list_decoded, decoded.val))

\* one step of zip(_iter_args(args_of(type_)), json), nxt being what the
\* generator yields: zip advances the generator before it advances json
tuple_zip(nxt, args, elements, p, index, list_decoded) ==
    IF nxt.st = "raise" THEN Raised("RuntimeError")
    ELSE IF nxt.st = "stop" \/ index >= Len(elements) THEN Ok(TupleV(list_decoded))
    ELSE tuple_element(decode(nxt.t, elements[index + 1], p \o <<str_of(index)>>),
            args, elements, p, index, list_decoded)

\* for (index, (type_, element)) in enumerate(zip(...)): ... return tuple(list_decoded)
tuple_zip_loop(args, elements, p, index, list_decoded) ==
    tuple_zip(_iter_args(args, index), args, elements, p, index, list_decoded)

\* mutant: a length other than the required one is a mismatch
decode_as_tuple_exact(t, j, p) ==
    IF origin_of(t) = "tuple"
    THEN
        IF j = None THEN DecodingError(TypeMismatch(p))
        ELSE IF ~is_Iterable(j) THEN Raised("TypeError")
        ELSE IF _required_length(args_of(t)) > Len(iter(j))
                \/ (args_of(t)[Len(args_of(t))] # Ellipsis /\ Len(args_of(t)) # Len(iter(j)))
        THEN DecodingError(TypeMismatch(p))
        ELSE tuple_zip_loop(args_of(t), iter(j), p, 0, <<>>)
    ELSE DecodingError(UnsupportedDecoding(p))

decode_as_tuple(t, j, p) ==
    IF origin_of(t) = "tuple"
    THEN
        IF j = None THEN DecodingError(TypeMismatch(p))
        ELSE IF ~is_Iterable(j) THEN Raised("TypeError")   \* len(json)
        ELSE IF _required_length(args_of(t)) > Len(iter(j))
        THEN DecodingError(TypeMismatch(p))
        ELSE tuple_zip_loop(args_of(t), iter(j), p, 0, <<>>)
    ELSE DecodingError(UnsupportedDecoding(p))

(***************************************************************************)
(* decode_as_list                                                          *)
(***************************************************************************)
RECURSIVE list_enumerate_loop(_, _, _, _, _)
\* mutant: an element that fails is skipped
list_element_skip(decoded, Element, elements, p, index, list_decoded) ==
    IF decoded.tag = "exc" THEN decoded
    ELSE list_enumerate_loop(Element, elements, p, index + 1,
            IF decoded.tag = "ok" THEN Append(list_decoded, decoded.val) ELSE list_decoded)

\* if isinstance(decoded, DecodingError): return decoded
\* list_decoded.append(decoded)
list_element(decoded, Element, elements, p, index, list_decoded) ==
    IF decoded.tag # "ok" THEN decoded
    ELSE list_enumerate_loop(Element, elements, p, index + 1, Append(list_decoded, decoded.val))

\* for index, element in enumerate(json): ... return list(list_decoded)
list_enumerate_loop(Element, elements, p, index, list_decoded) ==
    IF index >= Len(elements) THEN Ok(ListV(list_decoded))
    ELSE list_element(decode(Element, elements[index + 1], p \o <<str_of(index)>>),
            Element, elements, p, index, list_decoded)

decode_as_list(t, j, p) ==
    IF origin_of(t) = "list"
    THEN IF ~is_Iterable(j)
         THEN DecodingError(TypeMismatch(p))
         ELSE list_enumerate_loop(args_of(t)[1], iter(j), p, 0, <<>>)
    ELSE DecodingError(UnsupportedDecoding(p))

(***************************************************************************)
(* decode                                                                  *)
(***************************************************************************)
decoders ==
    <<"decode_as_union", "decode_as_tuple", "decode_as_list", "decode_as_primitive",
      "decode_as_class", "decode_as_dict", "decode_as_any">>

\* d(type_, json, path)
call_decoder(name, t, j, p) ==
    CASE name = "decode_as_union" -> decode_as_union(t, j, p)
      [] name = "decode_as_tuple" -> decode_as_tuple(t, j, p)
      [] name = "decode_as_list" -> decode_as_list(t, j, p)
      [] name = "decode_as_primitive" -> decode_as_primitive(t, j, p)
      [] name = "decode_as_class" -> decode_as_class(t, j, p)
      [] name = "decode_as_dict" -> decode_as_dict(t, j, p)
      [] name = "decode_as_any" -> decode_as_any(t, j, p)

\* mutant: an UnsupportedDecoding overwrites result_final like any error
decode_iter_overwrite(i, res, best) ==
    IF is_DecodingError(res)
    THEN [pc |-> "loop", d |-> i + 1, result_final |-> res]
    ELSE [pc |-> "break", d |-> i, result_final |-> res]

\* the body of "for d in decoders", res being what decoder i returned: the
\* loop's next position and result_final
decode_iter(i, res, best) ==
    IF is_DecodingError(res)
    THEN IF res.reason.cls # "UnsupportedDecoding"
         THEN [pc |-> "loop", d |-> i + 1, result_final |-> res]
         ELSE [pc |-> "loop", d |-> i + 1, result_final |-> best]
    ELSE [pc |-> "break", d |-> i, result_final |-> res]

RECURSIVE decode_from(_, _, _, _, _)
decode_continue(st, t, j, p) ==
    IF st.pc = "loop" THEN decode_from(t, j, p, st.d, st.result_final) ELSE st.result_final

\* result = d(type_, json, path): an exception it raises leaves decode
decode_consulted(res, t, j, p, i, best) ==
    IF res.tag = "exc" THEN res ELSE decode_continue(decode_iter(i, res, best), t, j, p)

\* the loop from decoder i on, and the return of result_final
decode_from(t, j, p, i, best) ==
    IF i > Len(decoders) THEN best
    ELSE decode_consulted(call_decoder(decoders[i], t, j, p), t, j, p, i, best)

decode(t, j, p) == decode_from(t, j, p, 1, DecodingError(UnsupportedDecoding(p)))

(***************************************************************************)
(* The round trip of a decoded value through the generic tree: a record is *)
(* the mapping of its fields, a sequence an ordered sequence, a mapping a   *)
(* mapping, a scalar itself.                                                *)
(***************************************************************************)
RECURSIVE to_tree(_)
to_tree(v) ==
    CASE v.k \in {"list", "tuple"} ->
            ListV([i \in 1..Len(v.items) |-> to_tree(v.items[i])])
      [] v.k = "dict" ->
            DictV([i \in 1..Len(v.entries) |->
                    <<to_tree(v.entries[i][1]), to_tree(v.entries[i][2])>>])
      [] v.k = "object" ->
            DictV([i \in 1..Len(v.attrs) |-> <<Str(v.attrs[i][1]), to_tree(v.attrs[i][2])>>])
      [] OTHER -> v

(***************************************************************************)
(* The descriptors and inputs the calls are drawn from.                    *)
(***************************************************************************)
Big == IntV(1, 400)
Color == Wire("Color", "str", {Str("a")})
T == TypeVar("T")
Person == Record("Person", <<<<"name", str>>, <<"age", int>>>>, <<<<"age", IntV(0, 0)>>>>)
Strict == Record("Strict", <<<<"name", str>>, <<"age", int>>>>, <<>>)
Box == Record("Box", <<<<"name", Generic("list", <<int>>)>>, <<"age", float>>>>, <<>>)

Scalars == {float, int, str, bool, NoneType, date, Color}
Unions ==
    { Generic("Union", <<int, str>>),
      Generic("Union", <<int, float>>),
      Generic("Union", <<float, int>>),
      Generic("Union", <<int, Person>>),
      Generic("Union", <<float, T>>) }
Tuples ==
    { Generic("tuple", <<int, str>>),
      Generic("tuple", <<int, str, bool, Ellipsis>>),
      Generic("tuple", <<float, Ellipsis>>) }
Lists ==
    { Generic("list", <<int>>),
      Generic("list", <<float>>),
      Generic("list", <<str>>),
      Generic("list", <<Generic("list", <<int>>)>>) }
Dicts ==
    { Generic("dict", <<str, int>>),
      Generic("dict", <<str, float>>),
      Generic("dict", <<int, T>>),
      Generic("dict", <<str, Person>>) }
Records == {Person, Strict, Box}
Descriptors == Scalars \cup Unions \cup Tuples \cup Lists \cup Dicts \cup Records \cup {T, Any}

SeqsUpTo(S, n) == UNION {[1..m -> S] : m \in 0..n}

ScalarValues ==
    {None, Bool(TRUE), IntV(1, 0), Big, FloatV(15, -1), Str("a"), Str("ab"), DateV(1)}
Elements == {IntV(1, 0), Str("a"), Bool(TRUE)}
ListValues ==
    {ListV(s) : s \in SeqsUpTo(Elements, MaxLen)}
    \cup { ListV(<<Big>>), ListV(<<IntV(1, 0), Big>>), ListV(<<Str("a"), Big>>), ListV(<<IntV(1, 0), Str("a"), Big>>),
           ListV(<<IntV(1, 0), Str("a"), Bool(TRUE), Bool(FALSE)>>),
           ListV(<<ListV(<<IntV(1, 0)>>), ListV(<<IntV(1, 0), Str("a")>>)>>),
           ListV(<<Str("ab")>>) }
Keys == {Str("name"), Str("age"), Str("a")}
EntryValues == {IntV(1, 0), Str("a"), Big}
DictValues ==
    {DictV(e) : e \in {s \in SeqsUpTo(Keys \X EntryValues, MaxKeys) :
                        \A i, k \in 1..Len(s) : i # k => s[i][1] # s[k][1]}}
    \cup { DictV(<<<<Str("name"), ListV(<<IntV(1, 0), Str("a")>>)>>, <<Str("age"), IntV(1, 0)>>>>),
           DictV(<<<<Str("name"), ListV(<<IntV(1, 0)>>)>>, <<Str("age"), IntV(1, 0)>>>>),
           DictV(<<<<Str("a"), DictV(<<<<Str("name"), IntV(1, 0)>>>>)>>>>),
           DictV(<<<<Str("a"), DictV(<<<<Str("name"), Str("a")>>>>)>>>>) }
Values == ScalarValues \cup ListValues \cup DictValues
Paths == {<<>>, <<"p">>}

NoResult == [tag |-> "none"]

(***************************************************************************)
(* The outermost call.                                                     *)
(***************************************************************************)
Init ==
    /\ type_ \in Descriptors
    /\ json \in Values
    /\ path \in Paths
    /\ d = 1
    /\ result = NoResult
    /\ result_final = DecodingError(UnsupportedDecoding(path))
    /\ consulted = <<>>
    /\ pc = "loop"
    /\ round = 1
    /\ first = NoResult

\* one iteration of the loop: decoders[d] is consulted and returns res
Consulted(res) ==
    /\ result' = res
    /\ IF res.tag = "exc"
       THEN pc' = "raised" /\ UNCHANGED <<d, result_final>>
       ELSE /\ d' = decode_iter(d, res, result_final).d
            /\ result_final' = decode_iter(d, res, result_final).result_final
            /\ pc' = decode_iter(d, res, result_final).pc
    /\ consulted' = Append(consulted, decoders[d])
    /\ UNCHANGED <<type_, json, path, round, first>>

Consult ==
    /\ pc = "loop"
    /\ d <= Len(decoders)
    /\ Consulted(call_decoder(decoders[d], type_, json, path))

\* return result_final: after the break, or with the decoders exhausted
Return ==
    /\ pc = "break" \/ (pc = "loop" /\ d > Len(decoders))
    /\ pc' = "done"
    /\ UNCHANGED <<type_, json, path, d, result, result_final, consulted, round, first>>

\* the caller decodes the output of a successful call again, against the
\* same descriptor, after the round trip through the generic tree
Redecode ==
    /\ pc = "done"
    /\ round = 1
    /\ result_final.tag = "ok"
    /\ round' = 2
    /\ first' = result_final
    /\ json' = to_tree(result_final.val)
    /\ d' = 1
    /\ result' = NoResult
    /\ result_final' = DecodingError(UnsupportedDecoding(path))
    /\ consulted' = <<>>
    /\ pc' = "loop"
    /\ UNCHANGED <<type_, path>>

Next == Consult \/ Return \/ Redecode

Spec == Init /\ [][Next]_vars

(***************************************************************************)
(* Vocabulary of the properties.                                           *)
(***************************************************************************)
LastConsulted == IF consulted = <<>> THEN "none" ELSE consulted[Len(consulted)]
IsError(out, cls, p) == out.tag = "err" /\ out.reason.cls = cls /\ out.reason.path = p
IsPrefix(p, q) == Len(p) <= Len(q) /\ SubSeq(q, 1, Len(p)) = p
Least(S) == CHOOSE i \in S : \A k \in S : i <= k
Greatest(S) == CHOOSE i \in S : \A k \in S : k <= i

(***************************************************************************)
(* C1: when decode returns, its result is the result of the first decoder  *)
(* (in the order union, tuple, list, primitive, class, dict, any) that     *)
(* succeeds, and no decoder after that one was consulted; with no success, *)
(* it is the error of the last decoder whose reason is not                 *)
(* UnsupportedDecoding; with none of those, it is UnsupportedDecoding at   *)
(* the call's path.                                                        *)
(***************************************************************************)
C1_Order ==
    <<"decode_as_union", "decode_as_tuple", "decode_as_list", "decode_as_primitive",
      "decode_as_class", "decode_as_dict", "decode_as_any">>

ScalarApplies(t) == t = float \/ t \in primitives \/ supertype_of(t) # NonePy

C2_ScalarTotal == ScalarApplies(type_) => pc # "raised"

(***************************************************************************)
(* C3: decode_as_union on a Union returns UnsupportedDecoding at the path, *)
(* decoding nothing, when an alternative is a TypeVar; otherwise the       *)
(* result of the first alternative (in declared order, at the unchanged    *)
(* path) that succeeds, whatever the later alternatives would do; and when *)
(* none succeeds, the outcome of the last alternative.                     *)
(***************************************************************************)
C3_UnionOrder ==
    (LastConsulted = "decode_as_union" /\ origin_of(type_) = "Union") =>
        LET args == args_of(type_)
            outs == [i \in 1..Len(args) |-> decode(args[i], json, path)]
            stops == {i \in 1..Len(args) : outs[i].tag # "err"}
        IN  IF \E i \in 1..Len(args) : args[i].kind = "TypeVar"
            THEN result = DecodingError(UnsupportedDecoding(path))
            ELSE IF stops = {} THEN result = outs[Len(args)]
            ELSE outs[Least(stops)].tag = "ok" => result = outs[Least(stops)]

\* the last alternative's UnsupportedDecoding is returned although the
\* first alternative failed with TypeMismatch
C3_Witness ==
    /\ LastConsulted = "decode_as_union"
    /\ origin_of(type_) = "Union"
    /\ IsError(decode(args_of(type_)[1], json, path), "TypeMismatch", path)
    /\ IsError(result, "UnsupportedDecoding", path)
    /\ \A i \in 1..Len(args_of(type_)) : args_of(type_)[i].kind # "TypeVar"

(***************************************************************************)
(* C4: decode_as_tuple with args ending in the variadic marker (k leading  *)
(* descriptors, the repeated descriptor T, the marker) on a list of n      *)
(* elements: TypeMismatch at the path when n < k; otherwise position i     *)
(* (from 0) is decoded against args[i] for i <= k and against T after, at  *)
(* path + str(i), and when all decode the result is the tuple of the n     *)
(* decoded values in order.                                                *)
(***************************************************************************)
C4_Variadic ==
    ( /\ LastConsulted = "decode_as_tuple"
      /\ origin_of(type_) = "tuple"
      /\ args_of(type_)[Len(args_of(type_))] = Ellipsis
      /\ json.k = "list" ) =>
        LET args == args_of(type_)
            k == Len(args) - 2
            n == Len(json.items)
            outs == [i \in 1..n |->
                        decode(IF i - 1 <= k THEN args[i] ELSE args[k + 1],
                               json.items[i], path \o <<str_of(i - 1)>>)]
        IN  IF n < k THEN result = DecodingError(TypeMismatch(path))
            ELSE (\A i \in 1..n : outs[i].tag = "ok") =>
                    result = Ok(TupleV([i \in 1..n |-> outs[i].val]))

\* more elements than leading descriptors: the tail is decoded against T
C4_Witness ==
    /\ LastConsulted = "decode_as_tuple"
    /\ type_ = Generic("tuple", <<int, str, bool, Ellipsis>>)
    /\ json.k = "list"
    /\ Len(json.items) = 3
    /\ result.tag = "ok"
    /\ Len(result.val.items) = 3

(***************************************************************************)
(* C5: decode_as_class on a record and a dict decodes, at path + field,    *)
(* only the hinted fields that are keys of the input, and constructs the   *)
(* record from exactly those: when they all decode, a missing field with   *)
(* no default gives InitializationError at the record's own path carrying  *)
(* the TypeError, and otherwise the record is built, absent fields taking  *)
(* their defaults and unhinted keys ignored.                               *)
(***************************************************************************)
C5_RecordFields ==
    ( /\ LastConsulted = "decode_as_class"
      /\ hints_of(type_) # NonePy
      /\ json.k = "dict" ) =>
        LET hints == hints_of(type_).v
            present == {i \in 1..Len(hints) : dict_has(json, Str(hints[i][1]))}
            outs == [i \in present |->
                        decode(hints[i][2], dict_get(json, Str(hints[i][1])),
                               path \o <<hints[i][1]>>)]
            missing == {hints[i][1] : i \in
                            {x \in 1..Len(hints) : /\ x \notin present
                                                   /\ hints[x][1] \notin field_names(type_.defaults)}}
        IN  (\A i \in present : outs[i].tag = "ok") =>
                IF missing # {}
                THEN /\ IsError(result, "InitializationError", path)
                     /\ result.reason.underlying = [exc |-> "TypeError", missing |-> missing]
                ELSE result = Ok(ObjV(type_.name,
                        [i \in 1..Len(hints) |->
                            <<hints[i][1],
                              IF i \in present THEN outs[i].val
                              ELSE field_value(type_.defaults, hints[i][1])>>]))

\* a field with a default is absent from the input and the record is built
C5_Witness ==
    /\ LastConsulted = "decode_as_class"
    /\ type_ = Person
    /\ json.k = "dict"
    /\ dict_has(json, Str("name"))
    /\ ~dict_has(json, Str("age"))
    /\ dict_has(json, Str("a"))
    /\ result.tag = "ok"

(***************************************************************************)
(* C6: decode_as_list on a list input decodes element i against the        *)
(* element descriptor at path + str(i), in order: when all decode the      *)
(* result is the list of the decoded values, of the input's length;        *)
(* otherwise it is the error of the first element that fails, whatever     *)
(* the elements after it would do.  None, a bool or a number gives         *)
(* TypeMismatch at the path.                                               *)
(***************************************************************************)
C6_ListElements ==
    (LastConsulted = "decode_as_list" /\ origin_of(type_) = "list") =>
        /\ json.k = "list" =>
            LET Element == args_of(type_)[1]
                n == Len(json.items)
                outs == [i \in 1..n |-> decode(Element, json.items[i], path \o <<str_of(i - 1)>>)]
                stops == {i \in 1..n : outs[i].tag # "ok"}
            IN  IF stops = {}
                THEN result = Ok(ListV([i \in 1..n |-> outs[i].val]))
                ELSE outs[Least(stops)].tag = "err" => result = outs[Least(stops)]
        /\ json.k \in {"NoneType", "bool", "int", "float"} =>
            result = DecodingError(TypeMismatch(path))

\* the second of three elements fails: its error, at path + "1"
C6_Witness ==
    /\ LastConsulted = "decode_as_list"
    /\ type_ = Generic("list", <<int>>)
    /\ json.k = "list"
    /\ Len(json.items) = 3
    /\ IsError(result, "TypeMismatch", path \o <<"1">>)

(***************************************************************************)
(* C7: for a descriptor built from records, sequences, mappings and        *)
(* scalars, decoding the output of a successful decode again, after the    *)
(* round trip through the generic tree, succeeds with an equal value.      *)
(***************************************************************************)
RECURSIVE Plain(_)
Plain(t) ==
    CASE t.kind \in {"class", "wire"} -> TRUE
      [] t.kind \in {"tuple", "list", "dict"} ->
            \A i \in 1..Len(t.args) : t.args[i] = Ellipsis \/ Plain(t.args[i])
      [] t.kind = "record" -> \A i \in 1..Len(t.hints) : Plain(t.hints[i][2])
      [] OTHER -> FALSE

C7_Idempotent ==
    (Plain(type_) /\ round = 2 /\ pc \in {"done", "raised"}) =>
        (pc = "done" /\ result_final = first)

\* a re-decode that had something to undo: the output differs from the input
C7_Witness ==
    /\ Plain(type_)
    /\ round = 2
    /\ pc = "done"
    /\ result_final = first
    /\ json # result_final.val
    /\ type_.kind = "record"

(***************************************************************************)
(* C8: decode_as_dict on a dict descriptor and a dict input takes the      *)
(* entries in order and decodes, at path + str(key), an entry's value      *)
(* before its key: it returns the first error so met, whatever the later   *)
(* decodes would do.  With another descriptor or input it returns          *)
(* UnsupportedDecoding at the path.                                        *)
(***************************************************************************)
C8_MappingOrder ==
    LastConsulted = "decode_as_dict" =>
        IF json.k = "dict" /\ origin_of(type_) = "dict"
        THEN
            LET n == Len(json.entries)
                at(i) == path \o <<json.entries[i][1].s>>
                \* the decodes in the order claimed: 2i-1 the value, 2i the key
                outs == [x \in 1..(2 * n) |->
                            IF x % 2 = 1
                            THEN decode(args_of(type_)[2], json.entries[(x + 1) \div 2][2],
                                        at((x + 1) \div 2))
                            ELSE decode(args_of(type_)[1], json.entries[x \div 2][1],
                                        at(x \div 2))]
                stops == {x \in 1..(2 * n) : outs[x].tag # "ok"}
            IN  IF stops = {} THEN result.tag = "ok"
                ELSE outs[Least(stops)].tag = "err" => result = outs[Least(stops)]
        ELSE result = DecodingError(UnsupportedDecoding(path))

\* the value and the key of the same entry both fail, with different
\* reasons: the value's is returned
C8_Witness ==
    /\ LastConsulted = "decode_as_dict"
    /\ json.k = "dict"
    /\ type_ = Generic("dict", <<int, T>>)
    /\ Len(json.entries) > 0
    /\ IsError(decode(int, json.entries[1][1], path \o <<json.entries[1][1].s>>),
               "TypeMismatch", path \o <<json.entries[1][1].s>>)
    /\ IsError(result, "UnsupportedDecoding", path \o <<json.entries[1][1].s>>)

(***************************************************************************)
(* C9: the path of a returned DecodingError extends the call's path by at  *)
(* most as many segments as the input is nested deep, and the segments     *)
(* name a location inside the input.                                       *)
(***************************************************************************)
RECURSIVE Depth(_)
Depth(v) ==
    LET subs == CASE v.k \in {"list", "tuple"} -> {v.items[i] : i \in 1..Len(v.items)}
                  [] v.k = "dict" -> {v.entries[i][2] : i \in 1..Len(v.entries)}
                  [] OTHER -> {}
        depths == {Depth(x) : x \in subs}
    IN  IF v.k \in {"list", "tuple", "dict"}
        THEN 1 + (IF depths = {} THEN 0 ELSE Greatest(depths))
        ELSE 0

RECURSIVE Locates(_, _)
Locates(v, p) ==
    IF p = <<>> THEN TRUE
    ELSE CASE v.k \in {"list", "tuple"} ->
                \E i \in 1..Len(v.items) : str_of(i - 1) = Head(p) /\ Locates(v.items[i], Tail(p))
           [] v.k = "dict" ->
                \E i \in 1..Len(v.entries) :
                    v.entries[i][1].s = Head(p) /\ Locates(v.entries[i][2], Tail(p))
           [] OTHER -> FALSE

C9_PathInsideInput ==
    (pc = "done" /\ round = 1 /\ result_final.tag = "err") =>
        LET rp == result_final.reason.path
        IN  /\ IsPrefix(path, rp)
            /\ Len(rp) - Len(path) <= Depth(json)
            /\ Locates(json, SubSeq(rp, Len(path) + 1, Len(rp)))

(***************************************************************************)
(* C10: decode_as_tuple with m descriptors and no variadic marker on a     *)
(* list of n > m elements does not report a length mismatch: it decodes    *)
(* positions 0..m-1 only and, when they decode, returns the tuple of those *)
(* m values; the elements from m on are never looked at.                   *)
(***************************************************************************)
C10_Truncation ==
    ( /\ LastConsulted = "decode_as_tuple"
      /\ origin_of(type_) = "tuple"
      /\ \A i \in 1..Len(args_of(type_)) : args_of(type_)[i] # Ellipsis
      /\ json.k = "list"
      /\ Len(json.items) > Len(args_of(type_)) ) =>
        LET args == args_of(type_)
            m == Len(args)
            outs == [i \in 1..m |-> decode(args[i], json.items[i], path \o <<str_of(i - 1)>>)]
            stops == {i \in 1..m : outs[i].tag # "ok"}
        IN  /\ result # DecodingError(TypeMismatch(path))
            /\ IF stops = {}
               THEN result = Ok(TupleV([i \in 1..m |-> outs[i].val]))
               ELSE result = outs[Least(stops)]

\* three elements against two descriptors: a tuple of two
C10_Witness ==
    /\ LastConsulted = "decode_as_tuple"
    /\ type_ = Generic("tuple", <<int, str>>)
    /\ json.k = "list"
    /\ Len(json.items) = 3
    /\ result.tag = "ok"
    /\ Len(result.val.items) = 2

====
